---- MODULE Spec2Model ----
(***************************************************************************)
(* btcex: ledger, futures contracts, orders and the matching engine.      *)
(*                                                                         *)
(* The state is the content of the database tables the session works on   *)
(* (assets, holdings, contracts, orders, transactions) plus the wall       *)
(* clock.  One action models one call of the public functions             *)
(*   User.increase_volume_of_asset   (an external deposit)                 *)
(*   FuturesContract.create_contract / cancel / expire                     *)
(*   Order.create_order / cancel                                           *)
(*   market.put_order / market.execute                                     *)
(* executed one at a time in one session, the caller committing after     *)
(* each call (as models/test_futures.py does).                             *)
(*                                                                         *)
(* Amounts are integers: one unit is the smallest amount a holding can     *)
(* record.  Orders are given a positive volume and a positive or null      *)
(* price; only an Ask may have a null price (create_order compares the     *)
(* balance with the price of a Bid, which fails on None).                  *)
(***************************************************************************)
EXTENDS Integers, Sequences, FiniteSets, TLC

(* ----------------------------- bounds ---------------------------------- *)
MaxOrders == 2        \* rows of the orders table
MaxPrice == 2         \* order prices are 1..MaxPrice (or null)
MaxVolume == 2        \* order volumes are 1..MaxVolume
MaxDeposits == 2      \* external deposits
MaxContracts == 1     \* futures contracts issued
MaxBookOrders == 3    \* rows of the orders table in SpecBook
MaxResaleOrders == 4  \* rows of the orders table in SpecResale
MaxLifeContracts == 2 \* futures contracts issued in SpecLife
MaxLifeOrders == 1    \* rows of the orders table in SpecLife
MaxTradeRows == 3     \* holdings rows of a bid user's contract asset in SpecTrade
MaxPlaceOrders == 3   \* rows of the orders table in SpecPlace
MaxConcurrentOrders == 3 \* rows of the orders table in SpecConcurrent

(* --------------------------- input domains ----------------------------- *)
Users == {"u1", "u2"}
DepositVolume == 2    \* volume of one external deposit
Collateral == 2       \* asset_volume locked by create_contract
MintVolumes == {0, 2} \* contract_volume given to create_contract
Names == {"FUTURE"}   \* contract_asset_name given to create_contract

(* the tests issue contracts that expire in 14 days *)
FourteenDays == 14

(* None of Python / NULL of SQL, for numeric columns and for names *)
NULL == -1
NoName == "None"

(* models/consts.py *)
market_order == "MarketOrder"
limit_order == "LimitOrder"
bid == "Bid"
ask == "Ask"
created == "Created"
in_market == "InMarket"
executed == "Executed"
cancelled == "Cancelled"

(* the asset the tests create first ('USD'): underlying and price asset *)
USD == 1

VARIABLES
    assets,        \* table assets: Seq of [name, previous_name, removed_at]
    holdings,      \* table holdings (append-only), kept per (user, asset):
                   \*   [volume_sum, rows] = the sum and the number of its rows
    contracts,     \* table contracts/futures: Seq of records, index = id
    orders,        \* table orders: Seq of records, index = id
    transactions,  \* table transactions: Seq of records
    now,           \* datetime.now()
    deposits,      \* number of external deposits made so far
    last,          \* the last call and what it returned to its caller
    sessions       \* what each concurrent session has read and is about to write

vars == <<assets, holdings, contracts, orders, transactions, now, deposits, last, sessions>>

(* ------------------------------ ledger --------------------------------- *)
(* The holdings journal is only ever read through SUM(volume) GROUP BY     *)
(* (user, asset); the model keeps, for each (user, asset), that sum and    *)
(* the number of rows behind it.  Asset ids that do not exist yet have no  *)
(* rows.                                                                   *)

AssetIds == 1..(1 + (IF MaxContracts > MaxLifeContracts THEN MaxContracts ELSE MaxLifeContracts))

NoHoldings == [u \in Users |-> [a \in AssetIds |-> [volume_sum |-> 0, rows |-> 0]]]

RECURSIVE SumOver(_, _, _)
SumOver(H, S, a) ==
    IF S = {} THEN 0
    ELSE LET u == CHOOSE x \in S : TRUE IN H[u][a].volume_sum + SumOver(H, S \ {u}, a)

(* current_holdings_for_user without the filter on the user: the sum of the
   asset over all users *)
current_holdings_for_any_user(H, u, a) == SumOver(H, Users, a)

(* Holding.current_holdings_for_user(session, user)[asset.id]; a defaultdict:
   0 when the user has no row for the asset *)
current_holdings_for_user(H, u, a) == H[u][a].volume_sum

(* User.volume_of_asset *)
volume_of_asset(H, u, a) == current_holdings_for_user(H, u, a)

(* Asset.removed: used by Holding.create_holding and Order.create_order but
   defined nowhere in models/asset.py; taken from the data model of the
   specification: an asset is removed when removed_at is set *)
removed(A, a) == A[a].removed_at # NULL

(* Holding.create_holding followed by session.add in increase_/decrease_
   volume_of_asset: the journal after the call (unchanged when create_holding
   returns None) *)
create_holding(H, A, u, a, volume) ==
    IF removed(A, a) THEN H
    ELSE IF volume = 0 THEN H
    ELSE IF volume < 0 /\ current_holdings_for_user(H, u, a) + volume < 0 THEN H
    ELSE [H EXCEPT ![u][a] = [volume_sum |-> @.volume_sum + volume, rows |-> @.rows + 1]]

(* User.increase_volume_of_asset *)
increase_volume_of_asset(H, A, u, a, volume) == create_holding(H, A, u, a, volume)

(* User.decrease_volume_of_asset *)
decrease_volume_of_asset(H, A, u, a, volume) == create_holding(H, A, u, a, -volume)

(* Holding.users_that_hold_asset: one (user, volume_sum) per user that has at
   least one holdings row for the asset (GROUP BY user_id, no HAVING) *)
users_that_hold_asset(H, a) ==
    {<<u, H[u][a].volume_sum>> : u \in {u \in Users : H[u][a].rows > 0}}

(* --------------------------- initial state ----------------------------- *)

(* the sessions that run calls concurrently, each with its own transaction;
   an idle session has read nothing *)
Sessions == {"s1", "s2"}
Idle == [pc |-> "idle"]

Init ==
    /\ sessions = [s \in Sessions |-> Idle]
    /\ assets = << [name |-> "USD", previous_name |-> NoName, removed_at |-> NULL] >>
    /\ holdings = NoHoldings
    /\ contracts = <<>>
    /\ orders = <<>>
    /\ transactions = <<>>
    /\ now = 0
    /\ deposits = 0
    /\ last = [op |-> "init", arg |-> 0, arg2 |-> 0, ret |-> "none"]

(* an external deposit: user.increase_volume_of_asset(session, usd, volume) *)
Deposit(u) ==
    /\ deposits < MaxDeposits
    /\ deposits' = deposits + 1
    /\ holdings' = increase_volume_of_asset(holdings, assets, u, USD, DepositVolume)
    /\ last' = [op |-> "deposit", arg |-> 0, arg2 |-> 0, ret |-> "holding"]
    /\ UNCHANGED <<assets, contracts, orders, transactions, now, sessions>>

(* ---------------------------- contracts -------------------------------- *)

(* Asset.create_asset: the name stripped and upper-cased; the names given
   here are already in that form *)
create_asset(name) == [name |-> name, previous_name |-> NoName, removed_at |-> NULL]

(* the unique constraint on assets.name *)
NameInUse(A, name) == \E a \in DOMAIN A : A[a].name = name

(* the number of a user, to record the caller of create_contract *)
UserNo(u) == IF u = "u1" THEN 1 ELSE 2

(* create_contract without the check of the issuer's balance *)
create_contract_unfunded(u, expires_at, asset_volume, name, contract_volume) ==
    /\ IF NameInUse(assets, name)
       THEN /\ last' = [op |-> "create_contract", arg |-> 0, arg2 |-> UserNo(u), ret |-> "raise"]
            /\ UNCHANGED <<assets, holdings, contracts>>
       ELSE LET A1 == Append(assets, create_asset(name))
                ca == Len(A1)
                H1 == increase_volume_of_asset(holdings, A1, u, ca, contract_volume)
                H2 == decrease_volume_of_asset(H1, A1, u, USD, asset_volume)
            IN /\ assets' = A1
               /\ holdings' = H2
               /\ contracts' = Append(contracts,
                      [issuer |-> u, created_at |-> now, expires_at |-> expires_at,
                       volume |-> asset_volume, asset |-> USD, contract_asset |-> ca,
                       cancelled |-> FALSE, expired |-> FALSE, deleted |-> FALSE,
                       mint_volume |-> contract_volume])
               /\ last' = [op |-> "create_contract", arg |-> Len(contracts) + 1,
                           arg2 |-> UserNo(u), ret |-> "contract"]
    /\ UNCHANGED <<orders, transactions, now, deposits, sessions>>

(* FuturesContract.create_contract(session, user, expires_at, usd,
   asset_volume, name, contract_volume), then the caller's commit.  The
   contract_volume is no column of the contract; the record keeps it as
   mint_volume, which nothing reads, to state the claims about it *)
create_contract_expiring(u, expires_at, asset_volume, name, contract_volume) ==
    /\ IF volume_of_asset(holdings, u, USD) < asset_volume
       THEN /\ last' = [op |-> "create_contract", arg |-> 0, arg2 |-> UserNo(u), ret |-> "none"]
            /\ UNCHANGED <<assets, holdings, contracts>>
       ELSE IF NameInUse(assets, name)
       THEN \* IntegrityError at the flush; the session is rolled back
            /\ last' = [op |-> "create_contract", arg |-> 0, arg2 |-> UserNo(u), ret |-> "raise"]
            /\ UNCHANGED <<assets, holdings, contracts>>
       ELSE LET A1 == Append(assets, create_asset(name))
                ca == Len(A1)
                H1 == increase_volume_of_asset(holdings, A1, u, ca, contract_volume)
                H2 == decrease_volume_of_asset(H1, A1, u, USD, asset_volume)
            IN /\ assets' = A1
               /\ holdings' = H2
               /\ contracts' = Append(contracts,
                      [issuer |-> u, created_at |-> now, expires_at |-> expires_at,
                       volume |-> asset_volume, asset |-> USD, contract_asset |-> ca,
                       cancelled |-> FALSE, expired |-> FALSE, deleted |-> FALSE,
                       mint_volume |-> contract_volume])
               /\ last' = [op |-> "create_contract", arg |-> Len(contracts) + 1,
                           arg2 |-> UserNo(u), ret |-> "contract"]
    /\ UNCHANGED <<orders, transactions, now, deposits, sessions>>

(* create_contract with the date the tests give: 14 days from now *)
create_contract_with(u, asset_volume, name, contract_volume) ==
    create_contract_expiring(u, now + FourteenDays, asset_volume, name, contract_volume)

(* create_contract with the collateral the tests of Spec lock *)
create_contract(u, name, contract_volume) ==
    create_contract_with(u, Collateral, name, contract_volume)

(* FuturesContract.can_be_used_in_order *)
can_be_used_in_order(c) ==
    ~contracts[c].cancelled /\ ~contracts[c].expired /\ now <= contracts[c].expires_at

(* Asset.remove that records removed_at but keeps the name *)
remove_keeps_name(A, a) == [A EXCEPT ![a].removed_at = now]

(* Asset.remove *)
remove(A, a) == [A EXCEPT ![a] = [name |-> NoName, previous_name |-> A[a].name,
                                  removed_at |-> now]]

(* a call of Asset.remove(session) on the asset a, and the commit *)
AssetRemove(a) ==
    /\ assets' = remove(assets, a)
    /\ last' = [op |-> "asset_remove", arg |-> a, arg2 |-> 0, ret |-> "None"]
    /\ UNCHANGED <<holdings, contracts, orders, transactions, now, deposits, sessions>>

(* FuturesContract.cancel: the reason it returns False, or "ok" *)
cancel_checks(c) ==
    IF \E uh \in users_that_hold_asset(holdings, contracts[c].contract_asset) :
           uh[1] # contracts[c].issuer
    THEN "other holders"
    ELSE IF \E i \in DOMAIN orders :
              orders[i].contract = c /\ orders[i].state \notin {cancelled, executed}
    THEN "open orders"
    ELSE IF contracts[c].expired \/ contracts[c].expires_at < now THEN "expired"
    ELSE IF contracts[c].cancelled THEN "cancelled"
    ELSE "ok"

(* FuturesContract.cancel(session) *)
ContractCancel(c) ==
    /\ ~contracts[c].deleted
    /\ IF cancel_checks(c) # "ok"
       THEN /\ last' = [op |-> "contract_cancel", arg |-> c, arg2 |-> 0, ret |-> "False"]
            /\ UNCHANGED <<assets, holdings, contracts>>
       ELSE LET k == contracts[c]
                H1 == increase_volume_of_asset(holdings, assets, k.issuer, k.asset, k.volume)
                H2 == decrease_volume_of_asset(H1, assets, k.issuer, k.contract_asset,
                          volume_of_asset(H1, k.issuer, k.contract_asset))
            IN /\ holdings' = H2
               /\ assets' = remove(assets, k.contract_asset)
               /\ contracts' = IF Len(orders) = 0
                               THEN [contracts EXCEPT ![c].deleted = TRUE]
                               ELSE [contracts EXCEPT ![c].cancelled = TRUE]
               /\ last' = [op |-> "contract_cancel", arg |-> c, arg2 |-> 0, ret |-> "True"]
    /\ UNCHANGED <<orders, transactions, now, deposits, sessions>>

(* sum(volume_sum for _, volume_sum in users_and_holdings) *)
RECURSIVE total_volume(_)
total_volume(UH) ==
    IF UH = {} THEN 0
    ELSE LET uh == CHOOSE x \in UH : TRUE IN uh[2] + total_volume(UH \ {uh})

(* volume_sum / total_volume * self.volume as the holding records it: rounded
   to the unit of the holdings column *)
share(volume_sum, total, volume) == (2 * volume_sum * volume + total) \div (2 * total)

(* the loop of FuturesContract.expire over users_and_holdings *)
RECURSIVE distribute(_, _, _, _)
distribute(H, UH, total, c) ==
    IF UH = {} THEN H
    ELSE LET uh == CHOOSE x \in UH : TRUE
         IN distribute(increase_volume_of_asset(H, assets, uh[1], contracts[c].asset,
                           share(uh[2], total, contracts[c].volume)),
                       UH \ {uh}, total, c)

(* expire without the early return when the contract is already expired *)
expire_again(c) ==
    /\ ~contracts[c].deleted
    /\ LET UH == users_that_hold_asset(holdings, contracts[c].contract_asset)
           total == total_volume(UH)
       IN IF UH # {} /\ total = 0
          THEN /\ last' = [op |-> "expire", arg |-> c, arg2 |-> 0, ret |-> "InvalidOperation"]
               /\ UNCHANGED <<holdings, contracts>>
          ELSE /\ holdings' = distribute(holdings, UH, total, c)
               /\ contracts' = [contracts EXCEPT ![c].expired = TRUE]
               /\ last' = [op |-> "expire", arg |-> c, arg2 |-> 0, ret |-> "expired"]
    /\ UNCHANGED <<assets, orders, transactions, now, deposits, sessions>>

(* FuturesContract.expire(session).  With holders whose volumes sum to zero
   the division volume_sum / total_volume raises (decimal.InvalidOperation)
   before anything is written *)
Expire(c) ==
    /\ ~contracts[c].deleted
    /\ LET UH == users_that_hold_asset(holdings, contracts[c].contract_asset)
           total == total_volume(UH)
       IN IF contracts[c].expired
          THEN /\ last' = [op |-> "expire", arg |-> c, arg2 |-> 0, ret |-> "None"]
               /\ UNCHANGED <<holdings, contracts>>
          ELSE IF UH # {} /\ total = 0
          THEN /\ last' = [op |-> "expire", arg |-> c, arg2 |-> 0, ret |-> "InvalidOperation"]
               /\ UNCHANGED <<holdings, contracts>>
          ELSE /\ holdings' = distribute(holdings, UH, total, c)
               /\ contracts' = [contracts EXCEPT ![c].expired = TRUE]
               /\ last' = [op |-> "expire", arg |-> c, arg2 |-> 0, ret |-> "expired"]
    /\ UNCHANGED <<assets, orders, transactions, now, deposits, sessions>>

(* ------------------------------ orders ---------------------------------- *)

(* the asset and the amount an order holds in escrow: what create_order
   debits and Order.cancel credits back *)
EscrowAsset(o) == IF o.direction = ask THEN contracts[o.contract].contract_asset ELSE o.asset
EscrowVolume(o) == IF o.direction = ask THEN o.volume ELSE o.price

(* Order.create_order(session, user, price, usd, contract, contract_volume,
   is_bid, order_type), then the caller's commit *)
create_order(u, price, c, contract_volume, is_bid, order_type) ==
    /\ ~contracts[c].deleted
    /\ is_bid => price # NULL
    /\ LET ca == contracts[c].contract_asset
           direction == IF is_bid THEN bid ELSE ask
           order == [user |-> u, price |-> price, asset |-> USD, contract |-> c,
                     volume |-> contract_volume, direction |-> direction,
                     order_type |-> order_type, state |-> created,
                     expires_in |-> NULL, created_at |-> now, executed_at |-> NULL]
           rejected == /\ last' = [op |-> "create_order", arg |-> 0, arg2 |-> 0, ret |-> "none"]
                       /\ UNCHANGED <<holdings, orders, now>>
       IN IF removed(assets, USD) \/ removed(assets, ca) THEN rejected
          ELSE IF ~can_be_used_in_order(c) THEN rejected
          ELSE IF ~is_bid /\ volume_of_asset(holdings, u, ca) >= contract_volume
          THEN /\ holdings' = decrease_volume_of_asset(holdings, assets, u, ca, contract_volume)
               /\ orders' = Append(orders, order)
               /\ now' = now + 1
               /\ last' = [op |-> "create_order", arg |-> Len(orders) + 1, arg2 |-> 0, ret |-> "order"]
          ELSE IF is_bid /\ volume_of_asset(holdings, u, USD) >= price
          THEN /\ holdings' = decrease_volume_of_asset(holdings, assets, u, USD, price)
               /\ orders' = Append(orders, order)
               /\ now' = now + 1
               /\ last' = [op |-> "create_order", arg |-> Len(orders) + 1, arg2 |-> 0, ret |-> "order"]
          ELSE rejected
    /\ UNCHANGED <<assets, contracts, transactions, deposits, sessions>>

(* --------------------------- market.execute ---------------------------- *)

NoOrder == 0

(* Order.executed: a transaction refers to the order (executed_bid / executed_ask) *)
order_executed(T, i) == \E k \in DOMAIN T : T[k].ask_order = i \/ T[k].bid_order = i

(* execute.has_expired *)
has_expired(o, t) == o.expires_in # NULL /\ o.created_at + o.expires_in > t

(* execute, lines 48-51: <<earliest_order, latest_order>> *)
earliest_latest(O, first, second) ==
    IF O[first].created_at <= O[second].created_at THEN <<first, second>> ELSE <<second, first>>

Max(a, b) == IF a >= b THEN a ELSE b
Min(a, b) == IF a <= b THEN a ELSE b

(* execute, lines 53-62: the price of the trade; at most one price is null *)
formed_price(O, first, second) ==
    LET e == O[earliest_latest(O, first, second)[1]]
        l == O[earliest_latest(O, first, second)[2]]
    IN IF e.price = NULL /\ l.price # NULL THEN l.price
       ELSE IF e.price # NULL /\ l.price = NULL THEN e.price
       ELSE IF e.direction = ask THEN Max(e.price, l.price)
       ELSE Min(e.price, l.price)

(* execute.verify_price *)
verify_price(o, price) ==
    IF o.price = NULL THEN TRUE
    ELSE IF o.direction = ask /\ o.price < price THEN FALSE
    ELSE IF o.direction = bid /\ o.price > price THEN FALSE
    ELSE TRUE

(* execute_checks without the checks of the orders' state and executed() *)
execute_checks_no_state(O, T, first, second) ==
    IF has_expired(O[first], now) \/ has_expired(O[second], now) THEN "OrderExpiredError"
    ELSE IF O[first].direction = O[second].direction THEN "MarketException"
    ELSE IF O[first].contract # O[second].contract THEN "MarketException"
    ELSE IF O[first].price = NULL /\ O[second].price = NULL THEN "MarketException"
    ELSE IF \/ ~verify_price(O[first], formed_price(O, first, second))
            \/ ~verify_price(O[second], formed_price(O, first, second))
         THEN "MarketException"
    ELSE "ok"

(* execute, lines 16-44 and 75-77: the exception the checks raise, or "ok" *)
execute_checks(O, T, first, second) ==
    IF O[first].state # in_market \/ O[second].state # in_market THEN "MarketException"
    ELSE IF order_executed(T, first) \/ order_executed(T, second) THEN "MarketException"
    ELSE IF has_expired(O[first], now) \/ has_expired(O[second], now) THEN "OrderExpiredError"
    ELSE IF O[first].direction = O[second].direction THEN "MarketException"
    ELSE IF O[first].contract # O[second].contract THEN "MarketException"
    ELSE IF O[first].price = NULL /\ O[second].price = NULL THEN "MarketException"
    ELSE IF \/ ~verify_price(O[first], formed_price(O, first, second))
            \/ ~verify_price(O[second], formed_price(O, first, second))
         THEN "MarketException"
    ELSE "ok"

(* new_transaction with the larger of the two volumes *)
new_transaction_max_volume(O, first, second) ==
    [contract |-> O[first].contract,
     ask_order |-> IF O[first].direction = ask THEN first ELSE second,
     bid_order |-> IF O[first].direction = ask THEN second ELSE first,
     price |-> formed_price(O, first, second),
     volume |-> Max(O[first].volume, O[second].volume),
     asset |-> NULL,
     executed_at |-> NULL]

(* execute, lines 79-88: the Transaction row; execute passes no asset, so the
   row's asset is None *)
new_transaction(O, first, second) ==
    [contract |-> O[first].contract,
     ask_order |-> IF O[first].direction = ask THEN first ELSE second,
     bid_order |-> IF O[first].direction = ask THEN second ELSE first,
     price |-> formed_price(O, first, second),
     volume |-> Min(O[first].volume, O[second].volume),
     asset |-> NULL,
     executed_at |-> NULL]

(* Transaction.execute_trade: <<holdings, transaction, result>>.  With
   self.asset None, Holding.create_holding raises AttributeError on asset.id,
   after the bid side has been credited *)
execute_trade(O, H, tx) ==
    IF tx.executed_at # NULL THEN <<H, tx, "None">>
    ELSE LET H1 == increase_volume_of_asset(H, assets, O[tx.bid_order].user,
                       contracts[tx.contract].contract_asset, tx.volume)
         IN IF tx.asset = NULL THEN <<H1, tx, "AttributeError">>
            ELSE <<increase_volume_of_asset(H1, assets, O[tx.ask_order].user, tx.asset, tx.price),
                   [tx EXCEPT !.executed_at = now], "True">>

(* execute(session, first_order, second_order) on the tables O, H, T: the set
   of outcomes [orders, holdings, transactions, ret].  A MarketException of
   the checks leaves the tables alone.  The AttributeError of execute_trade
   is no MarketException: it leaves execute with the session neither
   committed nor rolled back, and what is kept is the caller's choice: the
   caller goes on with the session (the pending rows are written by the next
   commit) or rolls it back *)
execute(O, H, T, first, second) ==
    LET chk == execute_checks(O, T, first, second)
        O1 == [O EXCEPT ![first].executed_at = now, ![first].state = executed,
                        ![second].executed_at = now, ![second].state = executed]
        r == execute_trade(O1, H, new_transaction(O, first, second))
    IN IF chk # "ok"
       THEN {[orders |-> O, holdings |-> H, transactions |-> T, ret |-> chk]}
       ELSE IF r[3] = "True"
       THEN {[orders |-> O1, holdings |-> r[1], transactions |-> Append(T, r[2]),
              ret |-> "Transaction"]}
       ELSE IF r[3] = "None"
       THEN {[orders |-> O1, holdings |-> r[1], transactions |-> Append(T, r[2]),
              ret |-> "None"]}
       ELSE {[orders |-> O1, holdings |-> r[1], transactions |-> Append(T, r[2]),
              ret |-> r[3]],
             [orders |-> O, holdings |-> H, transactions |-> T, ret |-> r[3]]}

(* a direct call of market.execute *)
Execute(first, second) ==
    /\ \E r \in execute(orders, holdings, transactions, first, second) :
          /\ orders' = r.orders
          /\ holdings' = r.holdings
          /\ transactions' = r.transactions
          /\ last' = [op |-> "execute", arg |-> first, arg2 |-> second, ret |-> r.ret]
    /\ UNCHANGED <<assets, contracts, now, deposits, sessions>>

(* a direct call of Transaction.execute_trade on the transaction row k; an
   AttributeError leaves the credit of the bid side pending in the session,
   kept or rolled back as the caller chooses *)
ExecuteTrade(k) ==
    /\ LET r == execute_trade(orders, holdings, transactions[k])
       IN /\ \/ holdings' = r[1] /\ transactions' = [transactions EXCEPT ![k] = r[2]]
             \/ /\ r[3] = "AttributeError"
                /\ UNCHANGED <<holdings, transactions>>
          /\ last' = [op |-> "execute_trade", arg |-> k, arg2 |-> 0, ret |-> r[3]]
    /\ UNCHANGED <<assets, contracts, orders, now, deposits, sessions>>

(* -------------------------- market.put_order --------------------------- *)

(* candidate_orders without the filter on the user *)
candidate_orders_any_user(O, i) ==
    {j \in DOMAIN O : /\ O[j].contract = O[i].contract
                      /\ O[j].direction # O[i].direction
                      /\ O[j].state = in_market}

(* put_order, lines 117-122 *)
candidate_orders(O, i) ==
    {j \in DOMAIN O : /\ O[j].contract = O[i].contract
                      /\ O[j].direction # O[i].direction
                      /\ O[j].state = in_market
                      /\ O[j].user # O[i].user}

(* Query.first() of a query ordered by Order.id and then by price: the
   second criterion never decides, ids being unique *)
first_by_id(S) == IF S = {} THEN NoOrder ELSE CHOOSE j \in S : \A k \in S : j <= k

(* market_candidates without the filter on the volume *)
market_candidates_any_volume(O, i) ==
    {j \in candidate_orders(O, i) : O[j].price # NULL}

(* put_order, lines 125-131: the candidates of a market order *)
market_candidates(O, i) ==
    {j \in candidate_orders(O, i) :
        /\ O[j].price # NULL
        /\ IF O[i].direction = ask THEN O[j].volume >= O[i].volume
                                   ELSE O[j].volume <= O[i].volume}

(* put_order, lines 142-145: the candidates of a limit order, first query
   (a comparison with a NULL price is not true) *)
limit_candidates(O, i) ==
    {j \in candidate_orders(O, i) :
        /\ O[j].price # NULL
        /\ IF O[i].direction = ask THEN O[j].price >= O[i].price
                                   ELSE O[j].price <= O[i].price}

(* put_order, lines 151-164: Order.price / Order.volume against
   order.price_to_volume; volumes are positive, and the quotients of the
   amounts used here are compared exactly *)
more_candidates(O, i) ==
    {j \in candidate_orders(O, i) :
        /\ O[j].price # NULL
        /\ IF O[i].direction = ask
           THEN O[j].price * O[i].volume >= O[i].price * O[j].volume
           ELSE O[j].price * O[i].volume <= O[i].price * O[j].volume}

(* Query.first() of more_candidates: ordered by volume alone (descending for
   an Ask, ascending for a Bid); among equal volumes the database may return
   any row *)
first_by_volume(O, i, S) ==
    {j \in S : \A k \in S : IF O[i].direction = ask THEN O[j].volume >= O[k].volume
                                                    ELSE O[j].volume <= O[k].volume}

(* Order.cancel refunding the volume of the order whatever its direction *)
cancel_order_refunds_volume(O, H, i) ==
    IF O[i].state \in {created, in_market}
    THEN <<[O EXCEPT ![i].state = cancelled],
           increase_volume_of_asset(H, assets, O[i].user, EscrowAsset(O[i]), O[i].volume),
           "True">>
    ELSE <<O, H, "False">>

(* Order.cancel without the check of the order's state *)
cancel_order_unguarded(O, H, i) ==
    <<[O EXCEPT ![i].state = cancelled],
      increase_volume_of_asset(H, assets, O[i].user, EscrowAsset(O[i]), EscrowVolume(O[i])),
      "True">>

(* Order.cancel as a function of the tables: <<orders, holdings, result>>;
   the result of increase_volume_of_asset is not looked at *)
cancel_order(O, H, i) ==
    IF O[i].state \in {created, in_market}
    THEN <<[O EXCEPT ![i].state = cancelled],
           increase_volume_of_asset(H, assets, O[i].user, EscrowAsset(O[i]), EscrowVolume(O[i])),
           "True">>
    ELSE <<O, H, "False">>

(* the orders put_order may hand to execute with order i, or {NoOrder} *)
reciprocal_orders(O, i) ==
    IF O[i].order_type = market_order
    THEN {first_by_id(market_candidates(O, i))}
    ELSE IF limit_candidates(O, i) # {}
    THEN {first_by_id(limit_candidates(O, i))}
    ELSE IF more_candidates(O, i) # {}
    THEN first_by_volume(O, i, more_candidates(O, i))
    ELSE {NoOrder}

(* put_order(session, order): the set of outcomes [orders, holdings,
   transactions, arg2, ret] *)
put_order(O, H, T, i) ==
    LET O1 == [O EXCEPT ![i].state = in_market]
    IN IF O[i].state # created
       THEN {[orders |-> O, holdings |-> H, transactions |-> T, arg2 |-> NoOrder,
              ret |-> "MarketException"]}
       ELSE UNION {
            IF j # NoOrder
            THEN {[orders |-> r.orders, holdings |-> r.holdings,
                   transactions |-> r.transactions, arg2 |-> j, ret |-> r.ret] :
                     r \in execute(O1, H, T, i, j)}
            ELSE IF O[i].order_type = market_order
            THEN {[orders |-> cancel_order(O1, H, i)[1], holdings |-> cancel_order(O1, H, i)[2],
                   transactions |-> T, arg2 |-> NoOrder, ret |-> "None"]}
            ELSE {[orders |-> O1, holdings |-> H, transactions |-> T, arg2 |-> NoOrder,
                   ret |-> "None"]}
            : j \in reciprocal_orders(O1, i)}

PutOrder(i) ==
    /\ \E r \in put_order(orders, holdings, transactions, i) :
          /\ orders' = r.orders
          /\ holdings' = r.holdings
          /\ transactions' = r.transactions
          /\ last' = [op |-> "put_order", arg |-> i, arg2 |-> r.arg2, ret |-> r.ret]
    /\ UNCHANGED <<assets, contracts, now, deposits, sessions>>

(* Order.cancel(session) *)
OrderCancel(i) ==
    /\ LET r == cancel_order(orders, holdings, i)
       IN /\ orders' = r[1]
          /\ holdings' = r[2]
          /\ last' = [op |-> "order_cancel", arg |-> i, arg2 |-> 0, ret |-> r[3]]
    /\ UNCHANGED <<assets, contracts, transactions, now, deposits, sessions>>

(* ------------------- calls that run in separate sessions ---------------- *)

(* Each call runs in a session of its own on the PostgreSQL engine (READ
   COMMITTED, no SELECT ... FOR UPDATE, no version column): what a call has
   read is not locked, and its writes reach the tables at its commit.  A call
   is two steps: its queries and the checks made on what they returned, then
   its writes and the commit *)

(* session.add(holding) and the commit: the INSERT of a holdings row, which
   looks at no other row *)
add_holding(H, u, a, volume) ==
    [H EXCEPT ![u][a] = [volume_sum |-> @.volume_sum + volume, rows |-> @.rows + 1]]

(* Order.create_order up to the return of the order: the checks of the
   assets, of the contract and of the balance, on the rows committed so far *)
CreateOrderCheck(s, u, price, c, contract_volume, is_bid) ==
    /\ sessions[s].pc = "idle"
    /\ ~contracts[c].deleted
    /\ LET ca == contracts[c].contract_asset
           a == IF is_bid THEN USD ELSE ca
           amount == IF is_bid THEN price ELSE contract_volume
           order == [user |-> u, price |-> price, asset |-> USD, contract |-> c,
                     volume |-> contract_volume,
                     direction |-> IF is_bid THEN bid ELSE ask,
                     order_type |-> limit_order, state |-> created,
                     expires_in |-> NULL, created_at |-> now, executed_at |-> NULL]
       IN IF \/ removed(assets, USD) \/ removed(assets, ca)
             \/ ~can_be_used_in_order(c)
             \/ volume_of_asset(holdings, u, a) < amount
             \/ create_holding(holdings, assets, u, a, -amount) = holdings
          THEN /\ last' = [op |-> "create_order", arg |-> 0, arg2 |-> 0, ret |-> "none"]
               /\ UNCHANGED sessions
          ELSE /\ sessions' = [sessions EXCEPT ![s] =
                                  [pc |-> "insert", order |-> order, asset |-> a,
                                   volume |-> -amount]]
               /\ last' = [op |-> "create_order", arg |-> 0, arg2 |-> 0, ret |-> "pending"]
    /\ UNCHANGED <<assets, holdings, contracts, orders, transactions, now, deposits>>

(* the caller's session.commit() after create_order: the INSERTs of the
   holdings row and of the order *)
CreateOrderCommit(s) ==
    /\ sessions[s].pc = "insert"
    /\ holdings' = add_holding(holdings, sessions[s].order.user, sessions[s].asset,
                               sessions[s].volume)
    /\ orders' = Append(orders, sessions[s].order)
    /\ now' = now + 1
    /\ sessions' = [sessions EXCEPT ![s] = Idle]
    /\ last' = [op |-> "create_order", arg |-> Len(orders) + 1, arg2 |-> 0, ret |-> "order"]
    /\ UNCHANGED <<assets, contracts, transactions, deposits>>

(* put_order up to the checks of execute: the order goes to the market
   (committed, lines 107-109), the candidate is queried and execute runs its
   checks on the two rows as read *)
PlaceSearch(s, i) ==
    /\ sessions[s].pc = "idle"
    /\ IF orders[i].state # created
       THEN /\ last' = [op |-> "put_order", arg |-> i, arg2 |-> NoOrder, ret |-> "MarketException"]
            /\ UNCHANGED <<orders, holdings, sessions>>
       ELSE LET O1 == [orders EXCEPT ![i].state = in_market]
            IN \E j \in reciprocal_orders(O1, i) :
                  IF j = NoOrder
                  THEN /\ orders' = O1
                       /\ last' = [op |-> "put_order", arg |-> i, arg2 |-> NoOrder, ret |-> "None"]
                       /\ UNCHANGED <<holdings, sessions>>
                  ELSE IF execute_checks(O1, transactions, i, j) # "ok"
                  THEN /\ orders' = O1
                       /\ last' = [op |-> "put_order", arg |-> i, arg2 |-> j,
                                   ret |-> execute_checks(O1, transactions, i, j)]
                       /\ UNCHANGED <<holdings, sessions>>
                  ELSE /\ orders' = O1
                       /\ sessions' = [sessions EXCEPT ![s] =
                                          [pc |-> "execute", first |-> i, second |-> j]]
                       /\ last' = [op |-> "put_order", arg |-> i, arg2 |-> j, ret |-> "pending"]
                       /\ UNCHANGED holdings
    /\ UNCHANGED <<assets, contracts, transactions, now, deposits>>

(* execute, lines 79-99, and the commit: the UPDATE of the two orders by their
   ids, the INSERT of the Transaction and the credits of execute_trade, or
   the rollback.  The rows are not read again.  The pair (ask_order_id,
   bid_order_id) is unique in the transactions table *)
PlaceSettle(s) ==
    /\ sessions[s].pc = "execute"
    /\ LET first == sessions[s].first
           second == sessions[s].second
           O1 == [orders EXCEPT ![first].executed_at = now, ![first].state = executed,
                                ![second].executed_at = now, ![second].state = executed]
           tx == new_transaction(orders, first, second)
           r == execute_trade(O1, holdings, tx)
           duplicate == \E k \in DOMAIN transactions :
                           /\ transactions[k].ask_order = tx.ask_order
                           /\ transactions[k].bid_order = tx.bid_order
       IN \/ /\ ~duplicate
             /\ orders' = O1
             /\ holdings' = r[1]
             /\ transactions' = Append(transactions, r[2])
             /\ last' = [op |-> "execute", arg |-> first, arg2 |-> second, ret |-> r[3]]
          \/ /\ r[3] = "AttributeError" \/ duplicate
             /\ last' = [op |-> "execute", arg |-> first, arg2 |-> second, ret |-> "rollback"]
             /\ UNCHANGED <<orders, holdings, transactions>>
    /\ sessions' = [sessions EXCEPT ![s] = Idle]
    /\ UNCHANGED <<assets, contracts, now, deposits>>

Prices == 1..MaxPrice
Volumes == 1..MaxVolume

Next ==
    \/ \E u \in Users : Deposit(u)
    \/ \E u \in Users, n \in Names, m \in MintVolumes :
          Len(contracts) < MaxContracts /\ create_contract(u, n, m)
    \/ \E u \in Users, p \in Prices \cup {NULL}, c \in DOMAIN contracts, v \in Volumes,
          b \in BOOLEAN, t \in {market_order, limit_order} :
          Len(orders) < MaxOrders /\ create_order(u, p, c, v, b, t)
    \/ \E i \in DOMAIN orders : PutOrder(i)
    \/ \E i \in DOMAIN orders : OrderCancel(i)
    \/ \E i, j \in DOMAIN orders : Execute(i, j)
    \/ \E c \in DOMAIN contracts : ContractCancel(c)
    \/ \E c \in DOMAIN contracts : Expire(c)

Spec == Init /\ [][Next]_vars

(* The book with one more order, to have two resting orders and an incoming
   one: deposits, one contract, orders of volume 1 and put_order *)
NextBook ==
    \/ \E u \in Users : Deposit(u)
    \/ \E u \in Users, n \in Names, m \in MintVolumes :
          Len(contracts) < MaxContracts /\ create_contract(u, n, m)
    \/ \E u \in Users, p \in Prices \cup {NULL}, c \in DOMAIN contracts,
          b \in BOOLEAN, t \in {market_order, limit_order} :
          Len(orders) < MaxBookOrders /\ create_order(u, p, c, 1, b, t)
    \/ \E i \in DOMAIN orders : PutOrder(i)

SpecBook == Init /\ [][NextBook]_vars

(* The resale: a buyer who sells the contract asset back.  Orders are limit
   orders of price 1 and volume 1, the contract locks a collateral of 1, and
   the issuer keeps 1 of the deposit to bid with *)
NextResale ==
    \/ \E u \in Users : Deposit(u)
    \/ \E u \in Users, n \in Names, m \in MintVolumes :
          Len(contracts) < MaxContracts /\ create_contract_with(u, 1, n, m)
    \/ \E u \in Users, c \in DOMAIN contracts, b \in BOOLEAN :
          Len(orders) < MaxResaleOrders /\ create_order(u, 1, c, 1, b, limit_order)
    \/ \E i \in DOMAIN orders : PutOrder(i)
    \/ \E c \in DOMAIN contracts : ContractCancel(c)
    \/ \E c \in DOMAIN contracts : Expire(c)

SpecResale == Init /\ [][NextResale]_vars

(* The life of two contracts, one after the other under the same name, with
   at most one order *)
NextLife ==
    \/ \E u \in Users : Deposit(u)
    \/ \E u \in Users, n \in Names, m \in MintVolumes :
          Len(contracts) < MaxLifeContracts /\ create_contract(u, n, m)
    \/ \E u \in Users, p \in Prices \cup {NULL}, c \in DOMAIN contracts, v \in Volumes,
          b \in BOOLEAN, t \in {market_order, limit_order} :
          Len(orders) < MaxLifeOrders /\ create_order(u, p, c, v, b, t)
    \/ \E i \in DOMAIN orders : PutOrder(i)
    \/ \E i \in DOMAIN orders : OrderCancel(i)
    \/ \E c \in DOMAIN contracts : ContractCancel(c)
    \/ \E c \in DOMAIN contracts : Expire(c)

SpecLife == Init /\ [][NextLife]_vars

(* Contracts issued with any date: a day ago, now, or in 14 days *)
ExpiryOffsets == {-1, 0, FourteenDays}

NextIssue ==
    \/ \E u \in Users : Deposit(u)
    \/ \E u \in Users, d \in ExpiryOffsets, n \in Names, m \in MintVolumes :
          /\ Len(contracts) < MaxLifeContracts
          /\ now + d >= 0
          /\ create_contract_expiring(u, now + d, Collateral, n, m)
    \/ \E u \in Users, p \in Prices \cup {NULL}, c \in DOMAIN contracts, v \in Volumes,
          b \in BOOLEAN, t \in {market_order, limit_order} :
          Len(orders) < MaxLifeOrders /\ create_order(u, p, c, v, b, t)
    \/ \E i \in DOMAIN orders : OrderCancel(i)
    \/ \E c \in DOMAIN contracts : ContractCancel(c)

SpecIssue == Init /\ [][NextIssue]_vars

(* The market as its users reach it: deposits, one contract, orders of price
   1 or without a price, put_order and Order.cancel; market.execute is called
   by put_order alone *)
NextPlace ==
    \/ \E u \in Users : Deposit(u)
    \/ \E u \in Users, n \in Names, m \in MintVolumes :
          Len(contracts) < MaxContracts /\ create_contract(u, n, m)
    \/ \E u \in Users, p \in {1, NULL}, c \in DOMAIN contracts, v \in Volumes,
          b \in BOOLEAN, t \in {market_order, limit_order} :
          Len(orders) < MaxPlaceOrders /\ create_order(u, p, c, v, b, t)
    \/ \E i \in DOMAIN orders : PutOrder(i)
    \/ \E i \in DOMAIN orders : OrderCancel(i)

SpecPlace == Init /\ [][NextPlace]_vars

(* Calls in two sessions: deposits, one contract, limit orders of price 1 and
   volume 1 created and put on the market in two steps each, and Order.cancel *)
NextConcurrent ==
    \/ \E u \in Users : Deposit(u)
    \/ \E u \in Users, n \in Names, m \in MintVolumes :
          Len(contracts) < MaxContracts /\ create_contract(u, n, m)
    \/ \E s \in Sessions, u \in Users, c \in DOMAIN contracts, b \in BOOLEAN :
          /\ Len(orders) + Cardinality({t \in Sessions : sessions[t].pc = "insert"})
                < MaxConcurrentOrders
          /\ CreateOrderCheck(s, u, 1, c, 1, b)
    \/ \E s \in Sessions : CreateOrderCommit(s)
    \/ \E s \in Sessions, i \in DOMAIN orders : PlaceSearch(s, i)
    \/ \E s \in Sessions : PlaceSettle(s)
    \/ \E i \in DOMAIN orders : OrderCancel(i)

SpecConcurrent == Init /\ [][NextConcurrent]_vars

(* Assets removed by FuturesContract.cancel and by calls of Asset.remove *)
NextAssets ==
    \/ \E u \in Users : Deposit(u)
    \/ \E u \in Users, n \in Names, m \in MintVolumes :
          Len(contracts) < MaxLifeContracts /\ create_contract(u, n, m)
    \/ \E u \in Users, p \in Prices \cup {NULL}, c \in DOMAIN contracts, v \in Volumes,
          b \in BOOLEAN, t \in {market_order, limit_order} :
          Len(orders) < MaxLifeOrders /\ create_order(u, p, c, v, b, t)
    \/ \E c \in DOMAIN contracts : ContractCancel(c)
    \/ \E a \in DOMAIN assets : AssetRemove(a)

SpecAssets == Init /\ [][NextAssets]_vars

(* Trades and further calls of execute_trade on their transactions *)
NextTrade ==
    \/ \E u \in Users : Deposit(u)
    \/ \E u \in Users, n \in Names, m \in MintVolumes :
          Len(contracts) < MaxContracts /\ create_contract(u, n, m)
    \/ \E u \in Users, p \in Prices, c \in DOMAIN contracts, v \in Volumes, b \in BOOLEAN :
          Len(orders) < MaxOrders /\ create_order(u, p, c, v, b, limit_order)
    \/ \E i \in DOMAIN orders : PutOrder(i)
    \/ \E k \in DOMAIN transactions :
          /\ holdings[orders[transactions[k].bid_order].user]
                     [contracts[transactions[k].contract].contract_asset].rows < MaxTradeRows
          /\ ExecuteTrade(k)

SpecTrade == Init /\ [][NextTrade]_vars

(* ============================== claims ================================= *)

Balance(u, a) == holdings[u][a].volume_sum

(* the amounts the operations debit *)
Debits == Prices \cup Volumes \cup {Collateral}

(* C1: the balance of every (user, asset) is never negative, and a debit that
   would make it negative appends no holding (the journal is unchanged) *)
C1_NonNegativeBalances ==
    /\ \A u \in Users, a \in AssetIds : Balance(u, a) >= 0
    /\ \A u \in Users, a \in DOMAIN assets, v \in Debits :
          Balance(u, a) - v < 0 =>
              decrease_volume_of_asset(holdings, assets, u, a, v) = holdings

(* C1 witness: a create_order was refused for lack of funds by a user whose
   balance earlier debits (an escrow, a collateral) have brought to zero;
   another user still has funds *)
C1_Witness ==
    /\ last.op = "create_order" /\ last.ret = "none"
    /\ \E u \in Users : holdings[u][USD].rows >= 2 /\ Balance(u, USD) = 0
    /\ \E u \in Users : Balance(u, USD) > 0

RECURSIVE Escrowed(_, _, _)
(* the amount of asset a held in escrow by the orders of the set S that are
   Created or InMarket *)
Escrowed(O, S, a) ==
    IF S = {} THEN 0
    ELSE LET i == CHOOSE x \in S : TRUE
         IN (IF O[i].state \in {created, in_market} /\ EscrowAsset(O[i]) = a
             THEN EscrowVolume(O[i]) ELSE 0) + Escrowed(O, S \ {i}, a)

(* all users' balances of asset a plus the escrow held by open orders *)
Total(H, O, a) == SumOver(H, Users, a) + Escrowed(O, DOMAIN O, a)

(* C2: create_order, put_order and Order.cancel leave the total of every asset
   (all users' balances plus the escrow of the orders Created or InMarket)
   unchanged *)
C2_TradingConserves ==
    [][last'.op \in {"create_order", "put_order", "order_cancel"} =>
          \A a \in DOMAIN assets :
              Total(holdings', orders', a) = Total(holdings, orders, a)]_vars

(* C3: every Transaction that a put_order creates has a price between the
   price of its ask order and the price of its bid order, a null price
   bounding nothing *)
C3_PriceBound ==
    [][(last'.op = "put_order" /\ Len(transactions') > Len(transactions)) =>
          LET tx == transactions'[Len(transactions')]
              A == orders'[tx.ask_order]
              B == orders'[tx.bid_order]
          IN /\ A.price # NULL => A.price <= tx.price
             /\ B.price # NULL => tx.price <= B.price]_vars

(* the call reached the settlement of execute: a pair was handed to execute
   and none of its checks raised *)
Settles(l) ==
    /\ l.op \in {"put_order", "execute"}
    /\ l.arg2 # NoOrder
    /\ l.ret \notin {"MarketException", "OrderExpiredError"}

(* C4: when execute settles a pair, the bid user's balance of the contract
   asset grows by the volume of the transaction, the ask user's balance of
   the price asset grows by its price, both orders are Executed with
   executed_at set, and one Transaction of the pair is created and returned *)
C4_Settlement ==
    [][Settles(last') =>
          /\ Len(transactions') = Len(transactions) + 1
          /\ LET tx == transactions'[Len(transactions')]
                 A == orders'[tx.ask_order]
                 B == orders'[tx.bid_order]
                 ca == contracts[tx.contract].contract_asset
             IN /\ {tx.ask_order, tx.bid_order} = {last'.arg, last'.arg2}
                /\ A.direction = ask /\ B.direction = bid
                /\ A.state = executed /\ B.state = executed
                /\ A.executed_at # NULL /\ B.executed_at # NULL
                /\ holdings'[B.user][ca].volume_sum = holdings[B.user][ca].volume_sum + tx.volume
                /\ holdings'[A.user][A.asset].volume_sum
                      = holdings[A.user][A.asset].volume_sum + tx.price
          /\ last'.ret = "Transaction"]_vars

(* C6: no contract is both cancelled and expired; cancel on an expired
   contract returns False and changes nothing; expire on a cancelled contract
   neither sets expired nor credits a holder *)
C6_CancelledXorExpired ==
    [][/\ \A c \in DOMAIN contracts' : ~(contracts'[c].cancelled /\ contracts'[c].expired)
       /\ (last'.op = "contract_cancel" /\ contracts[last'.arg].expired) =>
             /\ last'.ret = "False"
             /\ <<assets', holdings', contracts'>> = <<assets, holdings, contracts>>
       /\ (last'.op = "expire" /\ contracts[last'.arg].cancelled) =>
             <<holdings', contracts'>> = <<holdings, contracts>>]_vars

(* C9: a limit Bid put in the market after a resting limit Ask of the same
   volume and a lower price (the Ask at 20, then the Bid at 22) trades at the
   higher of the two prices: a Transaction at that price is created and both
   orders are Executed *)
C9_PriceFormation ==
    [][(/\ last'.op = "put_order"
        /\ last'.arg2 # NoOrder
        /\ orders[last'.arg].state = created
        /\ orders[last'.arg].direction = bid
        /\ orders[last'.arg].order_type = limit_order
        /\ orders[last'.arg2].order_type = limit_order
        /\ orders[last'.arg2].created_at < orders[last'.arg].created_at
        /\ orders[last'.arg2].volume = orders[last'.arg].volume
        /\ orders[last'.arg2].price < orders[last'.arg].price) =>
          /\ Len(transactions') = Len(transactions) + 1
          /\ transactions'[Len(transactions')].price
                = Max(orders[last'.arg].price, orders[last'.arg2].price)
          /\ orders'[last'.arg].state = executed
          /\ orders'[last'.arg2].state = executed]_vars

(* the resting orders put_order chooses among for order i once it is in the
   market: those of a market order, or of the first query of a limit order *)
Eligible(i) ==
    LET O1 == [orders EXCEPT ![i].state = in_market]
    IN IF orders[i].order_type = market_order THEN market_candidates(O1, i)
       ELSE limit_candidates(O1, i)

(* C10: when put_order finds several eligible resting orders for a market
   order, or for a limit order in its first query, the one it hands to
   execute has the best price: the highest Bid for an Ask, the lowest Ask for
   a Bid *)
C10_BestPrice ==
    [][(/\ last'.op = "put_order"
        /\ orders[last'.arg].state = created
        /\ Eligible(last'.arg) # {}) =>
          /\ last'.arg2 \in Eligible(last'.arg)
          /\ \A k \in Eligible(last'.arg) :
                IF orders[last'.arg].direction = ask
                THEN orders[last'.arg2].price >= orders[k].price
                ELSE orders[last'.arg2].price <= orders[k].price]_vars

Open == {created, in_market}
Terminal == {executed, cancelled}

(* the state changes of one order in one call: the edges of the state
   machine, and Created -> InMarket -> Executed inside one put_order *)
Moves(s, t, op) ==
    \/ s = t
    \/ s = created /\ t \in {in_market, cancelled}
    \/ s = in_market /\ t \in {executed, cancelled}
    \/ s = created /\ t = executed /\ op = "put_order"

(* C5: order states only move along Created -> InMarket, Created -> Cancelled,
   InMarket -> Executed, InMarket -> Cancelled; no call changes the state of
   an order that is Executed or Cancelled *)
C5_OrderStateMachine ==
    [][\A i \in DOMAIN orders :
          /\ Moves(orders[i].state, orders'[i].state, last'.op)
          /\ orders[i].state \in Terminal => orders'[i] = orders[i]]_vars

(* C5 witness: Order.cancel has been called on an Executed order *)
C5_Witness ==
    /\ last.op = "order_cancel" /\ last.ret = "False"
    /\ orders[last.arg].state = executed

(* C7: a successful create_order lowers the user's balance of the escrowed
   asset (contract_asset by volume for an Ask, price_asset by price for a Bid)
   by exactly the escrow amount and changes no other balance; the cancel of
   an order that is Created or InMarket raises that balance by exactly the
   same amount and changes no other balance, which restores the balance the
   user had before create_order *)
C7_EscrowRoundTrip ==
    [][/\ (last'.op = "create_order" /\ last'.ret = "order") =>
            LET o == orders'[last'.arg]
                a == IF o.direction = ask THEN contracts[o.contract].contract_asset ELSE o.asset
                e == IF o.direction = ask THEN o.volume ELSE o.price
            IN /\ holdings'[o.user][a].volume_sum = holdings[o.user][a].volume_sum - e
               /\ \A u \in Users, b \in AssetIds :
                     <<u, b>> # <<o.user, a>> => holdings'[u][b] = holdings[u][b]
       /\ \A i \in DOMAIN orders :
            (orders[i].state \in Open /\ orders'[i].state = cancelled) =>
            LET o == orders[i]
                a == IF o.direction = ask THEN contracts[o.contract].contract_asset ELSE o.asset
                e == IF o.direction = ask THEN o.volume ELSE o.price
            IN /\ holdings'[o.user][a].volume_sum = holdings[o.user][a].volume_sum + e
               /\ \A u \in Users, b \in AssetIds :
                     <<u, b>> # <<o.user, a>> => holdings'[u][b] = holdings[u][b]
       /\ (last'.op = "order_cancel" /\ last'.ret = "True") =>
            orders[last'.arg].state \in Open /\ orders'[last'.arg].state = cancelled]_vars

(* C7 witness: a Bid whose price differs from its volume has been created and
   cancelled, and its user holds the deposit again in three rows (deposit,
   escrow, refund) *)
C7_Witness ==
    /\ last.op = "order_cancel" /\ last.ret = "True"
    /\ orders[last.arg].direction = bid
    /\ orders[last.arg].price # orders[last.arg].volume
    /\ holdings[orders[last.arg].user][USD] = [volume_sum |-> DepositVolume, rows |-> 3]

(* the transactions that refer to order i *)
TransactionsOf(T, i) == {k \in DOMAIN T : T[k].ask_order = i \/ T[k].bid_order = i}

(* C8: the escrow of an order is released at most once: at most one
   transaction consumes it, a cancelled order is in no transaction, and once
   the order is Executed or Cancelled a cancel returns False and appends no
   holding, and no put_order or execute with it appends a holding or a
   transaction *)
C8_EscrowReleasedOnce ==
    [][/\ \A i \in DOMAIN orders' :
            /\ Cardinality(TransactionsOf(transactions', i)) <= 1
            /\ orders'[i].state = cancelled => TransactionsOf(transactions', i) = {}
       /\ \A i \in DOMAIN orders :
            (/\ orders[i].state \in Terminal
             /\ last'.op \in {"order_cancel", "put_order", "execute"}
             /\ i \in {last'.arg, last'.arg2}) =>
                /\ holdings' = holdings
                /\ transactions' = transactions
                /\ last'.op = "order_cancel" => last'.ret = "False"]_vars

(* C8 witness: Order.cancel has been called on a Cancelled order whose user
   holds exactly the one refund *)
C8_Witness ==
    /\ last.op = "order_cancel" /\ last.ret = "False"
    /\ orders[last.arg].state = cancelled
    /\ orders[last.arg].direction = bid
    /\ holdings[orders[last.arg].user][USD] = [volume_sum |-> DepositVolume, rows |-> 3]

(* ---------------------------- put_order ends ---------------------------- *)

(* the orders table as put_order sees it once order i is in the market *)
InMarketWith(i) == [orders EXCEPT ![i].state = in_market]

(* C11: when the execute that put_order attempts fails one of its checks
   (state, already executed, expired, same direction, different contracts,
   both prices null, price verification), put_order returns None to its
   caller instead of raising, no Transaction and no holding is created and
   both orders are InMarket *)
C11_PlaceReturnsNull ==
    [][(/\ last'.op = "put_order"
        /\ last'.arg2 # NoOrder
        /\ orders[last'.arg].state = created
        /\ execute_checks(InMarketWith(last'.arg), transactions,
                          last'.arg, last'.arg2) # "ok") =>
          /\ last'.ret = "None"
          /\ transactions' = transactions
          /\ holdings' = holdings
          /\ orders'[last'.arg].state = in_market
          /\ orders'[last'.arg2].state = in_market]_vars

(* a resting order j that passes the filters of a market order i: the other
   direction, the same contract, another user, InMarket, a price, and a
   volume >= that of an incoming Ask, <= that of an incoming Bid *)
Counterparty(i, j) ==
    /\ j # i
    /\ orders[j].state = in_market
    /\ orders[j].contract = orders[i].contract
    /\ orders[j].direction # orders[i].direction
    /\ orders[j].user # orders[i].user
    /\ orders[j].price # NULL
    /\ IF orders[i].direction = ask THEN orders[j].volume >= orders[i].volume
                                    ELSE orders[j].volume <= orders[i].volume

(* C12: put_order of a market order for which no resting order passes the
   price-not-null and size filters cancels it, refunds its escrow in full
   (the one balance create_order lowered rises by the escrow amount, nothing
   else changes), creates no transaction and returns None; a limit order for
   which put_order finds no counterparty stays InMarket and its escrow stays
   held (no balance changes) *)
C12_UnmatchedOrders ==
    [][(last'.op = "put_order" /\ orders[last'.arg].state = created) =>
          LET i == last'.arg
              o == orders[i]
          IN /\ (o.order_type = market_order
                 /\ ~\E j \in DOMAIN orders : Counterparty(i, j)) =>
                    /\ orders' = [orders EXCEPT ![i].state = cancelled]
                    /\ holdings' = [holdings EXCEPT
                          ![o.user][EscrowAsset(o)].volume_sum = @ + EscrowVolume(o),
                          ![o.user][EscrowAsset(o)].rows = @ + 1]
                    /\ transactions' = transactions
                    /\ last'.ret = "None" /\ last'.arg2 = NoOrder
             /\ (o.order_type = limit_order /\ last'.arg2 = NoOrder) =>
                    /\ orders' = [orders EXCEPT ![i].state = in_market]
                    /\ holdings' = holdings
                    /\ transactions' = transactions
                    /\ last'.ret = "None"]_vars

(* C12 witness: a market Ask of volume 2 has been put in the market while a
   Bid of another user, of volume 1, was resting there: the Bid fails the size
   filter, the Ask is Cancelled and its user holds the whole mint again *)
C12_Witness ==
    /\ last.op = "put_order" /\ last.ret = "None" /\ last.arg2 = NoOrder
    /\ orders[last.arg].order_type = market_order
    /\ orders[last.arg].direction = ask
    /\ orders[last.arg].state = cancelled
    /\ \E j \in DOMAIN orders :
          /\ orders[j].state = in_market /\ orders[j].direction = bid
          /\ orders[j].user # orders[last.arg].user
          /\ orders[j].volume < orders[last.arg].volume
    /\ Balance(orders[last.arg].user, EscrowAsset(orders[last.arg])) = 2

(* ------------------------------- expire -------------------------------- *)

(* the users whose balance of asset a is positive, and the sum of those
   balances *)
PositiveHolders(a) == {u \in Users : Balance(u, a) > 0}
HeldVolume(a) == SumOver(holdings, PositiveHolders(a), a)

(* what the step credits user u of asset a *)
Credit(u, a) == holdings'[u][a].volume_sum - holdings[u][a].volume_sum

RECURSIVE CreditsOf(_, _)
CreditsOf(S, a) ==
    IF S = {} THEN 0
    ELSE LET u == CHOOSE x \in S : TRUE IN Credit(u, a) + CreditsOf(S \ {u}, a)

(* C13: expire on a contract that is not expired and whose contract asset is
   held with positive balances v_i summing to V > 0 credits each holder
   exactly v_i / V x collateral of the underlying asset (credit x V =
   v_i x collateral), nobody else, so that the credits total the collateral,
   and sets expired *)
C13_ProRataExpiry ==
    [][(/\ last'.op = "expire"
        /\ ~contracts[last'.arg].expired
        /\ HeldVolume(contracts[last'.arg].contract_asset) > 0) =>
          LET k == contracts[last'.arg]
              V == HeldVolume(k.contract_asset)
          IN /\ \A u \in Users :
                   Credit(u, k.asset) * V = Balance(u, k.contract_asset) * k.volume
             /\ CreditsOf(Users, k.asset) = k.volume
             /\ contracts'[last'.arg].expired]_vars

(* C14: expire is idempotent: a call of expire on a contract that an earlier
   call has expired, whatever was called in between, appends no holding and
   leaves every balance and the expired flag as they were *)
C14_ExpireIdempotent ==
    [][(last'.op = "expire" /\ contracts[last'.arg].expired) =>
          /\ holdings' = holdings
          /\ contracts' = contracts
          /\ assets' = assets]_vars

(* C14 witness: expire has been called again on an expired contract whose
   contract asset is still held with a positive balance, after the first
   call credited the issuer the collateral (deposit, collateral, credit) *)
C14_Witness ==
    /\ last.op = "expire" /\ last.ret = "None"
    /\ contracts[last.arg].expired
    /\ PositiveHolders(contracts[last.arg].contract_asset) # {}
    /\ holdings[contracts[last.arg].issuer][USD]
          = [volume_sum |-> DepositVolume, rows |-> 3]

(* C15: expire on a contract that is not expired and whose contract asset
   balances total 0 (the issuer has escrowed the whole mint in an open Ask)
   completes without error, credits nothing and sets expired *)
C15_ExpireNothingHeld ==
    [][(/\ last'.op = "expire"
        /\ ~contracts[last'.arg].expired
        /\ SumOver(holdings, Users, contracts[last'.arg].contract_asset) = 0) =>
          /\ last'.ret = "expired"
          /\ holdings' = holdings
          /\ contracts'[last'.arg].expired]_vars

(* --------------------------- execute_trade ----------------------------- *)

(* C16: execute_trade is idempotent.  The first call on a transaction, the
   one execute makes when it settles a pair, performs the two credits, stamps
   executed_at and returns True; any further call on the transaction credits
   nothing and changes nothing *)
C16_ExecuteTradeOnce ==
    [][/\ Settles(last') =>
            /\ Len(transactions') = Len(transactions) + 1
            /\ transactions'[Len(transactions')].executed_at # NULL
       /\ last'.op = "execute_trade" =>
            /\ holdings' = holdings
            /\ transactions' = transactions
            /\ last'.ret = "None"]_vars

(* --------------------------- contract.cancel --------------------------- *)

(* an order on contract c is Created or InMarket *)
OpenOrderOn(c) ==
    \E i \in DOMAIN orders : orders[i].contract = c /\ orders[i].state \in Open

(* the contract is neither expired nor cancelled and its date has not passed *)
Active(c) ==
    /\ ~contracts[c].expired /\ ~contracts[c].cancelled
    /\ now <= contracts[c].expires_at

(* C18: other holders block contract.cancel only when a user other than the
   issuer holds a positive balance of the contract asset: when every such
   balance is zero (users who held it and sold it all back included), no
   order on the contract is open and the contract is neither expired nor
   cancelled, cancel returns True *)
C18_OnlyPositiveHoldersBlock ==
    [][(/\ last'.op = "contract_cancel"
        /\ \A u \in Users \ {contracts[last'.arg].issuer} :
               Balance(u, contracts[last'.arg].contract_asset) = 0
        /\ ~OpenOrderOn(last'.arg)
        /\ Active(last'.arg)) =>
          last'.ret = "True"]_vars

(* C17: while an order on the contract is Created or InMarket, contract.cancel
   returns False and changes no balance, flag or asset; once every order on
   the contract is Cancelled or Executed and the other conditions hold (no
   other user holds a positive balance of the contract asset, the contract is
   neither expired nor cancelled), cancel returns True *)
C17_OpenOrdersBlockCancel ==
    [][last'.op = "contract_cancel" =>
          LET c == last'.arg
          IN /\ OpenOrderOn(c) =>
                   /\ last'.ret = "False"
                   /\ <<holdings', contracts', assets'>> = <<holdings, contracts, assets>>
             /\ (/\ \E i \in DOMAIN orders : orders[i].contract = c
                 /\ ~OpenOrderOn(c)
                 /\ \A u \in Users \ {contracts[c].issuer} :
                        Balance(u, contracts[c].contract_asset) = 0
                 /\ Active(c)) =>
                   last'.ret = "True"]_vars

(* an order, in any state, refers to contract c *)
Referenced(c) == \E i \in DOMAIN orders : orders[i].contract = c

(* C19: a successful contract.cancel deletes the row of the contract if and
   only if no order refers to that contract; when an order, in any state,
   refers to it the row is kept with cancelled set.  Orders on other
   contracts do not count *)
C19_DeleteIffUnreferenced ==
    [][(last'.op = "contract_cancel" /\ last'.ret = "True") =>
          LET c == last'.arg
          IN IF Referenced(c)
             THEN ~contracts'[c].deleted /\ contracts'[c].cancelled
             ELSE contracts'[c].deleted]_vars

(* C20: a successful contract.cancel credits the issuer exactly the
   collateral of the underlying asset, leaves the issuer's balance of the
   contract asset at 0, touches no other balance and removes the contract
   asset; from then on no holding of a removed asset is appended, no order is
   created on a contract whose contract asset is removed, and a
   create_contract under a name that only removed assets bore is not refused
   for the name: the new contract asset bears it *)
C20_CancelReturnsCollateral ==
    [][/\ (last'.op = "contract_cancel" /\ last'.ret = "True") =>
            LET k == contracts[last'.arg]
            IN /\ holdings'[k.issuer][k.asset].volume_sum
                     = Balance(k.issuer, k.asset) + k.volume
               /\ holdings'[k.issuer][k.contract_asset].volume_sum = 0
               /\ \A u \in Users, a \in AssetIds :
                     (u # k.issuer \/ a \notin {k.asset, k.contract_asset}) =>
                         holdings'[u][a] = holdings[u][a]
               /\ assets'[k.contract_asset].removed_at # NULL
               /\ assets'[k.contract_asset].name = NoName
       /\ \A a \in DOMAIN assets :
            assets[a].removed_at # NULL =>
                /\ assets'[a].removed_at # NULL
                /\ \A u \in Users : holdings'[u][a] = holdings[u][a]
       /\ \A i \in DOMAIN orders' \ DOMAIN orders :
            assets[contracts[orders'[i].contract].contract_asset].removed_at = NULL
       /\ (/\ last'.op = "create_contract"
           /\ \E a \in DOMAIN assets : assets[a].previous_name \in Names
           /\ \A a \in DOMAIN assets : assets[a].name \notin Names) =>
            /\ last'.ret # "raise"
            /\ last'.ret = "contract" => assets'[Len(assets')].name \in Names]_vars

(* C20 witness: a contract has been cancelled, its issuer has the deposit
   back, and a second contract has been issued under the name the removed
   contract asset bore *)
C20_Witness ==
    /\ last.op = "create_contract" /\ last.ret = "contract"
    /\ Len(contracts) = 2
    /\ assets[contracts[1].contract_asset].removed_at # NULL
    /\ assets[contracts[1].contract_asset].previous_name = "FUTURE"
    /\ assets[contracts[2].contract_asset].name = "FUTURE"

(* ---------------------------- create_contract --------------------------- *)

(* the user who made the call that last records *)
Caller(l) == CHOOSE u \in Users : UserNo(u) = l.arg2

(* C21: create_contract by a user whose balance of the underlying asset is
   below the collateral returns (None, None) and changes nothing: no asset,
   no contract, no holding, every balance as before *)
C21_IssueWithoutFunds ==
    [][(/\ last'.op = "create_contract"
        /\ Balance(Caller(last'), USD) < Collateral) =>
          /\ last'.ret = "none"
          /\ <<assets', contracts', holdings'>> = <<assets, contracts, holdings>>]_vars

(* C21 witness: create_contract has returned (None, None) to a user without
   funds while the other user holds the collateral *)
C21_Witness ==
    /\ last.op = "create_contract" /\ last.ret = "none"
    /\ Balance(Caller(last), USD) = 0
    /\ \E u \in Users : Balance(u, USD) >= Collateral
    /\ contracts = <<>>

(* C22: create_contract succeeds only when expires_at is after the current
   time: no contract exists whose expires_at is at or before the time it was
   created at *)
C22_IssueBeforeExpiry ==
    \A c \in DOMAIN contracts : contracts[c].expires_at > contracts[c].created_at

(* C23: for every contract, the sum V of the users' positive balances of its
   contract asset is at most the volume create_contract minted: orders,
   put_order and Order.cancel create no contract asset *)
C23_NoMintByTrading ==
    \A c \in DOMAIN contracts :
        HeldVolume(contracts[c].contract_asset) <= contracts[c].mint_volume

(* a trade has credited the bid user, and all of the minted volume is held *)
C23_Witness ==
    \E k \in DOMAIN transactions :
        LET ca == contracts[transactions[k].contract].contract_asset
            b == orders[transactions[k].bid_order].user
        IN /\ b # contracts[transactions[k].contract].issuer
           /\ Balance(b, ca) = transactions[k].volume
           /\ HeldVolume(ca) = contracts[transactions[k].contract].mint_volume
           /\ \E i \in DOMAIN orders : orders[i].state = cancelled

(* C24: with put_order and Order.cancel running in separate sessions, a
   settlement is written only while both of its orders are InMarket and in no
   Transaction: no order is settled twice, or cancelled, refunded and then
   executed *)
C24_SettlementReverifies ==
    [][Len(transactions') > Len(transactions) =>
         LET tx == transactions'[Len(transactions')]
         IN /\ orders[tx.ask_order].state = in_market
            /\ orders[tx.bid_order].state = in_market
            /\ ~order_executed(transactions, tx.ask_order)
            /\ ~order_executed(transactions, tx.bid_order)]_vars

(* C25: concurrent debits of one (user, asset) are serialized: no step that
   lowers a balance leaves it negative *)
C25_SerializedDebits ==
    [][\A u \in Users, a \in AssetIds :
          holdings'[u][a].volume_sum < holdings[u][a].volume_sum =>
             holdings'[u][a].volume_sum >= 0]_vars

(* C26: Asset.remove on an asset that is already removed is a no-op: name,
   previous_name and removed_at stay exactly as they were *)
C26_RemoveIdempotent ==
    [][(last'.op = "asset_remove" /\ removed(assets, last'.arg)) =>
          assets'[last'.arg] = assets[last'.arg]]_vars

(* C27: an order is Executed if and only if exactly one Transaction refers to
   it, no order is referred to by two Transactions, and every Transaction
   pairs an Ask and a Bid of its contract placed by two different users *)
C27_OneTransactionPerExecuted ==
    /\ \A i \in DOMAIN orders :
          /\ Cardinality(TransactionsOf(transactions, i)) <= 1
          /\ orders[i].state = executed <=>
                Cardinality(TransactionsOf(transactions, i)) = 1
    /\ \A k \in DOMAIN transactions :
          LET A == orders[transactions[k].ask_order]
              B == orders[transactions[k].bid_order]
          IN /\ A.direction = ask /\ B.direction = bid
             /\ A.contract = transactions[k].contract
             /\ B.contract = transactions[k].contract
             /\ A.user # B.user

(* a trade of two orders while a third order rests in the market *)
C27_Witness ==
    /\ \E k \in DOMAIN transactions :
          /\ orders[transactions[k].ask_order].state = executed
          /\ orders[transactions[k].bid_order].state = executed
    /\ \E i \in DOMAIN orders :
          orders[i].state = in_market /\ TransactionsOf(transactions, i) = {}
====
